---- MODULE Spec2Model ----
(***************************************************************************)
(* Model of the paginated comment cache of video_summary_tool:             *)
(*   src/src/utils.py  get_cached_comments, _fetch_comments_with_token     *)
(*   src/app.py        session state initialisation                        *)
(* The Comment Source (YouTube commentThreads.list) is an unchanging,      *)
(* paged listing; a page request may fail.                                 *)
(***************************************************************************)
EXTENDS FiniteSets, Integers, Naturals, Sequences, TLC

VARIABLES comments_cache, source, last, prev, environ, fetch_run, map_run,
          url_run, captions_run, session, handled

\* the comment cache, its source and the observation of its calls
cacheVars == <<comments_cache, source, last, prev, environ>>

\* one run of _fetch_comments_with_token, statement by statement
fetchVars == <<fetch_run>>

\* the item loop of one page of _fetch_comments_with_token, item by item
mapVars == <<map_run>>

\* one URL-like string and what extract_video_id and convert_youtube_url
\* make of it
urlVars == <<url_run>>

\* one video's transcripts and what find_captions and retrieve_subtitles
\* make of them
captionVars == <<captions_run>>

\* st.session_state with the widget values, and what the handler that ran
\* last did
appVars == <<session, handled>>

vars == <<cacheVars, fetchVars, mapVars, urlVars, captionVars, appVars>>

\* the variables each part of the model leaves alone
besidesCache == <<fetchVars, mapVars, urlVars, captionVars>>

besidesFetch == <<cacheVars, mapVars, urlVars, captionVars, appVars>>

besidesMap == <<cacheVars, fetchVars, urlVars, captionVars, appVars>>

besidesUrl == <<cacheVars, fetchVars, mapVars, captionVars, appVars>>

besidesCaptions == <<cacheVars, fetchVars, mapVars, urlVars, appVars>>

besidesApp == <<fetchVars, mapVars, urlVars, captionVars>>

----------------------------------------------------------------------------
(* Bounds of the model *)

\* largest max_comments a caller asks for
MaxN == 4
\* largest number of comments the Comment Source holds for one video
MaxComments == 3
\* largest number of items in a page whose items are mapped one by one
MaxItems == 2
\* largest number of parts a URL-like string is put together from
MaxParts == 3
\* largest number of transcripts of one video
MaxTracks == 2
\* largest number of 'Start again' clicks in one session
MaxRestarts == 1

(* Program constants *)

\* maxResults=100 of the page request
MaxResults == 100
\* page_token None / nextPageToken absent
NoToken == 0

Videos == {"A", "B"}

----------------------------------------------------------------------------
(* Sequence helpers *)

Take(s, n) == SubSeq(s, 1, IF n < Len(s) THEN n ELSE Len(s))

IsPrefix(s, t) == Len(s) <= Len(t) /\ SubSeq(t, 1, Len(s)) = s

\* the sequences of at most n elements of S
RECURSIVE SeqsUpTo(_, _)
SeqsUpTo(S, n) ==
    IF n = 0 THEN {<<>>}
    ELSE SeqsUpTo(S, n - 1) \cup
         {Append(q, x) : q \in {p \in SeqsUpTo(S, n - 1) : Len(p) = n - 1}, x \in S}

RECURSIVE Flatten(_)
Flatten(pages) ==
    IF pages = <<>> THEN <<>> ELSE Head(pages) \o Flatten(Tail(pages))

----------------------------------------------------------------------------
(* The Comment Source: per video a sequence of pages of comments.  A       *)
(* comment is <<video, k>>, the k-th comment of the video in relevance     *)
(* order.  The page with index i > 1 is requested with token i, the first  *)
(* page with no token.                                                     *)

\* page-size layouts: one empty page (a video without comments), or every
\* way of cutting 1..MaxComments comments into non-empty pages
RECURSIVE LayoutsOfTotal(_)
LayoutsOfTotal(t) ==
    IF t = 0 THEN {<<>>}
    ELSE UNION {{<<sz>> \o l : l \in LayoutsOfTotal(t - sz)} : sz \in 1..t}

Layouts == {<<0>>} \cup UNION {LayoutsOfTotal(t) : t \in 1..MaxComments}

RECURSIVE PagesOf(_, _, _)
PagesOf(v, layout, offset) ==
    IF layout = <<>> THEN <<>>
    ELSE <<[k \in 1..Head(layout) |-> <<v, offset + k>>]>>
         \o PagesOf(v, Tail(layout), offset + Head(layout))

\* video_id is opaque to the cache (only compared for equality): video "A"
\* ranges over every layout, the other video has one page of no, one or
\* two comments
OnePageLayouts == {<<0>>, <<1>>, <<2>>}

LayoutsFor(v) == IF v = "A" THEN Layouts ELSE OnePageLayouts

Sources ==
    {[v \in Videos |-> PagesOf(v, lay[v], 0)] :
        lay \in {l \in [Videos -> Layouts] : \A v \in Videos : l[v] \in LayoutsFor(v)}}

AllComments(v) == Flatten(source[v])

\* the comments of the pages from the one a cursor names to the last
RemainingFrom(v, token) == Flatten(SubSeq(source[v], token, Len(source[v])))

\* youtube.commentThreads().list(...).execute() on a request that succeeds
ListPage(video_id, pageToken) ==
    LET idx == IF pageToken = NoToken THEN 1 ELSE pageToken
    IN  [items         |-> source[video_id][idx],
         nextPageToken |-> IF idx < Len(source[video_id]) THEN idx + 1 ELSE NoToken]

----------------------------------------------------------------------------
(* _fetch_comments_with_token: the page loop.  failAt is the number of the *)
(* page request of this call that raises (0: none does).  calls is the     *)
(* sequence of page requests made.                                         *)

\* for item in resp.get("items", []): append, break at max_comments
AccumulatePage(comments, items, max_comments) ==
    comments \o Take(items, max_comments - Len(comments))

RECURSIVE FetchLoop(_, _, _, _, _, _)
FetchLoop(video_id, max_comments, comments, next_page_token, calls, failAt) ==
    IF ~(Len(comments) < max_comments)
    THEN [ok |-> TRUE, comments |-> comments,
          next_page_token |-> next_page_token, calls |-> calls]
    ELSE LET req    == [videoId |-> video_id, maxResults |-> MaxResults,
                        pageToken |-> next_page_token]
             calls2 == Append(calls, req)
         IN  IF Len(calls2) = failAt
             THEN \* .execute() raises: comments, next_page_token are the
                  \* locals lost with the frame
                  [ok |-> FALSE, comments |-> comments,
                   next_page_token |-> next_page_token, calls |-> calls2]
             ELSE LET resp      == ListPage(video_id, next_page_token)
                      comments2 == AccumulatePage(comments, resp.items, max_comments)
                  IN  IF resp.nextPageToken = NoToken
                      THEN [ok |-> TRUE, comments |-> comments2,
                            next_page_token |-> NoToken, calls |-> calls2]
                      ELSE FetchLoop(video_id, max_comments, comments2,
                                     resp.nextPageToken, calls2, failAt)

\* 'if' in place of 'while': one page request at most
FetchOnePageOnly(video_id, max_comments, page_token, failAt) ==
    IF ~(0 < max_comments)
    THEN [ok |-> TRUE, comments |-> <<>>, next_page_token |-> page_token,
          calls |-> <<>>]
    ELSE LET req  == [videoId |-> video_id, maxResults |-> MaxResults,
                      pageToken |-> page_token]
             resp == ListPage(video_id, page_token)
         IN  IF failAt = 1
             THEN [ok |-> FALSE, comments |-> <<>>,
                   next_page_token |-> page_token, calls |-> <<req>>]
             ELSE [ok |-> TRUE,
                   comments |-> AccumulatePage(<<>>, resp.items, max_comments),
                   next_page_token |-> resp.nextPageToken, calls |-> <<req>>]

FetchCommentsWithToken(video_id, max_comments, page_token, failAt) ==
    FetchLoop(video_id, max_comments, <<>>, page_token, <<>>, failAt)

----------------------------------------------------------------------------
(* os.environ: the value of YOUTUBE_API_KEY, "unset" when it has none *)

EnvValues == {"unset", "", "key"}

\* line 176: os.getenv("YOUTUBE_API_KEY", "")
Getenv(value) == IF value = "unset" THEN "" ELSE value

----------------------------------------------------------------------------
(* st.session_state.comments_cache.  kind "missing": the key was never     *)
(* set; "none": set to None; "entry": a dict with the three fields.        *)

MissingCache == [kind |-> "missing", video_id |-> "", comments |-> <<>>,
                 next_page_token |-> NoToken]

NoneCache == [kind |-> "none", video_id |-> "", comments |-> <<>>,
              next_page_token |-> NoToken]

Entry(video_id, comments, next_page_token) ==
    [kind |-> "entry", video_id |-> video_id, comments |-> comments,
     next_page_token |-> next_page_token]

\* what a call is observed to do: arguments, the cache before it, the
\* outcome, the returned list, the fetch it asked for and the page requests
NoFetch == [amount |-> 0, page_token |-> NoToken]

Obs(path, video_id, max_comments, outcome, result, fetch, calls) ==
    [path |-> path, video_id |-> video_id, max_comments |-> max_comments,
     before |-> comments_cache, outcome |-> outcome, result |-> result,
     fetch |-> fetch, calls |-> calls, api_key |-> Getenv(environ)]

NoObs == [path |-> "none", video_id |-> "", max_comments |-> 0,
          before |-> MissingCache, outcome |-> "none", result |-> <<>>,
          fetch |-> NoFetch, calls |-> <<>>, api_key |-> ""]

\* last: the most recent call; prev: the call before it
Record(obs) == /\ last' = obs
               /\ prev' = last

\* what no get_cached_comments call changes
outsideCall == <<source, environ, besidesCache>>

----------------------------------------------------------------------------
(* get_cached_comments, one action per path through the function *)

\* line 95: cache and cache.get("video_id") == video_id
SameVideo(video_id) ==
    comments_cache.kind = "entry" /\ comments_cache.video_id = video_id

\* line 92 on a session whose comments_cache key was never set
GetMissingKeyPath(video_id, max_comments) ==
    /\ comments_cache.kind = "missing"
    /\ Record(Obs("missing", video_id, max_comments, "AttributeError", <<>>,
                  NoFetch, <<>>))
    /\ UNCHANGED <<comments_cache, outsideCall>>

\* the call made outside the dashboard
GetMissingKey(video_id, max_comments) ==
    GetMissingKeyPath(video_id, max_comments) /\ UNCHANGED appVars

\* the slice left out
CachedSliceWhole(cached_comments, max_comments) == cached_comments

\* line 102: cached_comments[:max_comments]
CachedSlice(cached_comments, max_comments) ==
    SubSeq(cached_comments, 1, max_comments)

\* lines 100-102
GetFromCachePath(video_id, max_comments) ==
    /\ SameVideo(video_id)
    /\ Len(comments_cache.comments) >= max_comments
    /\ Record(Obs("cache", video_id, max_comments, "returned",
                  CachedSlice(comments_cache.comments, max_comments),
                  NoFetch, <<>>))
    /\ UNCHANGED <<comments_cache, outsideCall>>

\* the call made outside the dashboard
GetFromCache(video_id, max_comments) ==
    GetFromCachePath(video_id, max_comments) /\ UNCHANGED appVars

\* lines 105-107
GetExhaustedPath(video_id, max_comments) ==
    /\ SameVideo(video_id)
    /\ ~(Len(comments_cache.comments) >= max_comments)
    /\ comments_cache.next_page_token = NoToken
    /\ Len(comments_cache.comments) > 0
    /\ Record(Obs("exhausted", video_id, max_comments, "returned",
                  comments_cache.comments, NoFetch, <<>>))
    /\ UNCHANGED <<comments_cache, outsideCall>>

\* the call made outside the dashboard
GetExhausted(video_id, max_comments) ==
    GetExhaustedPath(video_id, max_comments) /\ UNCHANGED appVars

NeedsMore(video_id, max_comments) ==
    /\ SameVideo(video_id)
    /\ ~(Len(comments_cache.comments) >= max_comments)
    /\ ~(comments_cache.next_page_token = NoToken /\ Len(comments_cache.comments) > 0)

\* lines 176-178: api_key truthy
HasApiKey == Getenv(environ) # ""

\* the cached count not subtracted
AdditionalNeededAll(max_comments, cached_count) == max_comments

\* line 110: additional_needed = max_comments - cached_count
AdditionalNeeded(max_comments, cached_count) == max_comments - cached_count

\* the new page(s) replacing, or put in front of, the cached comments
AllCommentsOfNewOnly(cached_comments, new_comments) == new_comments

AllCommentsOfPrepended(cached_comments, new_comments) ==
    new_comments \o cached_comments

\* line 120: all_comments = cached_comments + new_comments
AllCommentsOf(cached_comments, new_comments) == cached_comments \o new_comments

\* the pages fetched before the failure committed
EntryAfterFailureCommitted(cache, video_id, partial, token) ==
    Entry(video_id, cache.comments \o partial, token)

\* lines 113-125 and 135-142: the fetch raises before the cache is assigned,
\* so the entry stays; partial and token are the fetch's locals at the
\* exception
EntryAfterFailure(cache, video_id, partial, token) == cache

\* lines 110-131
GetAdditionalPath(video_id, max_comments, failAt) ==
    /\ NeedsMore(video_id, max_comments)
    /\ HasApiKey
    /\ LET cached_comments   == comments_cache.comments
           additional_needed == AdditionalNeeded(max_comments, Len(cached_comments))
           f == FetchCommentsWithToken(video_id, additional_needed,
                                       comments_cache.next_page_token, failAt)
           all_comments == AllCommentsOf(cached_comments, f.comments)
           fetch == [amount |-> additional_needed,
                     page_token |-> comments_cache.next_page_token]
       IN  IF f.ok
           THEN /\ failAt = 0
                /\ comments_cache' = Entry(video_id, all_comments, f.next_page_token)
                /\ Record(Obs("additional", video_id, max_comments, "returned",
                              Take(all_comments, max_comments), fetch, f.calls))
           ELSE /\ comments_cache' = EntryAfterFailure(comments_cache, video_id,
                                                       f.comments, f.next_page_token)
                /\ Record(Obs("additional", video_id, max_comments, "SourceError",
                              <<>>, fetch, f.calls))
    /\ UNCHANGED outsideCall

\* the call made outside the dashboard
GetAdditional(video_id, max_comments, failAt) ==
    GetAdditionalPath(video_id, max_comments, failAt) /\ UNCHANGED appVars

\* the fetched comments merged into the entry of the other video
FreshCommentsMerged(cache, comments) == cache.comments \o comments

\* lines 138-142: "comments": comments
FreshComments(cache, comments) == comments

\* lines 134-148
GetFreshPath(video_id, max_comments, failAt) ==
    /\ comments_cache.kind # "missing"
    /\ ~SameVideo(video_id)
    /\ HasApiKey
    /\ LET f == FetchCommentsWithToken(video_id, max_comments, NoToken, failAt)
           fetch == [amount |-> max_comments, page_token |-> NoToken]
       IN  IF f.ok
           THEN /\ failAt = 0
                /\ comments_cache' = Entry(video_id,
                                           FreshComments(comments_cache, f.comments),
                                           f.next_page_token)
                /\ Record(Obs("fresh", video_id, max_comments, "returned",
                              f.comments, fetch, f.calls))
           ELSE /\ comments_cache' = EntryAfterFailure(comments_cache, video_id,
                                                       f.comments, f.next_page_token)
                /\ Record(Obs("fresh", video_id, max_comments, "SourceError",
                              <<>>, fetch, f.calls))
    /\ UNCHANGED outsideCall

\* the call made outside the dashboard
GetFresh(video_id, max_comments, failAt) ==
    GetFreshPath(video_id, max_comments, failAt) /\ UNCHANGED appVars

\* the credential checked only after the pages were requested
ConfigErrorCallsAfterFetch(video_id, amount, page_token) ==
    FetchCommentsWithToken(video_id, amount, page_token, 0).calls

\* lines 176-184: RuntimeError("YOUTUBE_API_KEY not set ...") is raised
\* before build() and the page loop: no page request was made
ConfigErrorCalls(video_id, amount, page_token) == <<>>

\* lines 110-117 with 176-178: the additional fetch without a credential
GetAdditionalNoKey(video_id, max_comments) ==
    /\ NeedsMore(video_id, max_comments)
    /\ ~HasApiKey
    /\ LET additional_needed ==
               AdditionalNeeded(max_comments, Len(comments_cache.comments))
           fetch == [amount |-> additional_needed,
                     page_token |-> comments_cache.next_page_token]
       IN  Record(Obs("additional", video_id, max_comments, "ConfigError", <<>>,
                      fetch,
                      ConfigErrorCalls(video_id, additional_needed,
                                       comments_cache.next_page_token)))
    /\ UNCHANGED <<comments_cache, outsideCall, appVars>>

\* lines 134-135 with 176-178: the fresh fetch without a credential
GetFreshNoKey(video_id, max_comments) ==
    /\ comments_cache.kind # "missing"
    /\ ~SameVideo(video_id)
    /\ ~HasApiKey
    /\ Record(Obs("fresh", video_id, max_comments, "ConfigError", <<>>,
                  [amount |-> max_comments, page_token |-> NoToken],
                  ConfigErrorCalls(video_id, max_comments, NoToken)))
    /\ UNCHANGED <<comments_cache, outsideCall, appVars>>

\* the process environment changes between two calls
SetEnviron(value) ==
    /\ environ # value
    /\ environ' = value
    /\ UNCHANGED <<comments_cache, source, last, prev, besidesCache, appVars>>

----------------------------------------------------------------------------
(* _fetch_comments_with_token statement by statement.  fetch_run holds the *)
(* arguments, the locals, the page requests sent and the nextPageToken of  *)
(* each response; pc is the statement the run is at.                       *)

NoRun == [pc |-> "idle", video_id |-> "", max_comments |-> 0,
          comments |-> <<>>, next_page_token |-> NoToken, calls |-> <<>>,
          responses |-> <<>>]

\* lines 181-182: comments = [], next_page_token = page_token
RunOf(video_id, max_comments, page_token) ==
    [pc |-> "while", video_id |-> video_id, max_comments |-> max_comments,
     comments |-> <<>>, next_page_token |-> page_token, calls |-> <<>>,
     responses |-> <<>>]

\* the cursors the source has handed out for a video, and no cursor
TokensOf(src, video_id) == {NoToken} \cup 2..Len(src[video_id])

\* the loop test left out: while True
FetchWhileAlways ==
    /\ fetch_run.pc = "while"
    /\ fetch_run' = [fetch_run EXCEPT !.pc = "request"]
    /\ UNCHANGED besidesFetch

\* line 184: while len(comments) < max_comments, else line 209
FetchWhile ==
    /\ fetch_run.pc = "while"
    /\ fetch_run' = [fetch_run EXCEPT !.pc =
                        IF Len(fetch_run.comments) < fetch_run.max_comments
                        THEN "request" ELSE "returned"]
    /\ UNCHANGED besidesFetch

FetchRequest ==
    [videoId |-> fetch_run.video_id, maxResults |-> MaxResults,
     pageToken |-> fetch_run.next_page_token]

\* lines 185-207: the page request answers
FetchPage ==
    /\ fetch_run.pc = "request"
    /\ LET resp == ListPage(fetch_run.video_id, fetch_run.next_page_token)
       IN  fetch_run' =
             [fetch_run EXCEPT
                !.calls = Append(@, FetchRequest),
                !.responses = Append(@, resp.nextPageToken),
                !.comments = AccumulatePage(@, resp.items, fetch_run.max_comments),
                !.next_page_token = resp.nextPageToken,
                !.pc = IF resp.nextPageToken = NoToken THEN "returned" ELSE "while"]
    /\ UNCHANGED besidesFetch

\* lines 185-191: .execute() raises
FetchPageFails ==
    /\ fetch_run.pc = "request"
    /\ fetch_run' = [fetch_run EXCEPT !.calls = Append(@, FetchRequest),
                                      !.pc = "raised"]
    /\ UNCHANGED besidesFetch

----------------------------------------------------------------------------
(* The item loop of lines 193-203 on the items of one response.  A JSON    *)
(* value is a mapping (at: its keys and values) or something that is not   *)
(* a mapping (None, a string); an absent key is a key not in at.           *)

NotMapping == [kind |-> "scalar", at |-> <<>>]

Mapping(f) == [kind |-> "mapping", at |-> f]

EmptyMapping == Mapping(<<>>)

Raise(error) == [ok |-> FALSE, error |-> error, value |-> NotMapping]

Value(v) == [ok |-> TRUE, error |-> "", value |-> v]

\* v[key]: TypeError on a non-mapping, KeyError on an absent key
Subscript(v, key) ==
    IF v.kind # "mapping" THEN Raise("TypeError")
    ELSE IF key \notin DOMAIN v.at THEN Raise("KeyError")
    ELSE Value(v.at[key])

\* v.get(key, default) if isinstance(v, dict) else default
GetOr(v, key, default) ==
    IF v.kind = "mapping" /\ key \in DOMAIN v.at THEN v.at[key] ELSE default

InnerSnippet ==
    Mapping([textDisplay |-> "text", authorDisplayName |-> "author",
             publishedAt |-> "2020", likeCount |-> 5])

ItemOf(id, snippet) == Mapping([id |-> id, snippet |-> snippet])

\* the items a response may hold: well formed, and malformed at each level
ItemShapes ==
    { ItemOf("full", Mapping([topLevelComment |-> Mapping([snippet |-> InnerSnippet])])),
      ItemOf("no_fields", Mapping([topLevelComment |-> Mapping([snippet |-> EmptyMapping])])),
      ItemOf("inner_not_mapping", Mapping([topLevelComment |-> Mapping([snippet |-> NotMapping])])),
      ItemOf("inner_absent", Mapping([topLevelComment |-> EmptyMapping])),
      ItemOf("top_not_mapping", Mapping([topLevelComment |-> NotMapping])),
      ItemOf("top_absent", EmptyMapping),
      ItemOf("snippet_not_mapping", NotMapping),
      Mapping([id |-> "snippet_absent"]) }

\* lines 195-201: the Comment record of the inner snippet s
CommentOf(id, s) ==
    [id |-> id,
     text |-> GetOr(s, "textDisplay", ""),
     author |-> GetOr(s, "authorDisplayName", "None"),
     published_at |-> GetOr(s, "publishedAt", "None"),
     like_count |-> GetOr(s, "likeCount", 0)]

NoComment == CommentOf("None", NotMapping)

\* lines 194-201: s = item["snippet"]["topLevelComment"]["snippet"], then
\* the record
MapItem(item) ==
    LET a == Subscript(item, "snippet")
        b == IF a.ok THEN Subscript(a.value, "topLevelComment") ELSE a
        s == IF b.ok THEN Subscript(b.value, "snippet") ELSE b
    IN  IF s.ok
        THEN [ok |-> TRUE, error |-> "",
              comment |-> CommentOf(GetOr(item, "id", "None"), s.value)]
        ELSE [ok |-> FALSE, error |-> s.error, comment |-> NoComment]

NoMapRun == [pc |-> "idle", items |-> <<>>, max_comments |-> 0, i |-> 0,
             comments |-> <<>>, error |-> ""]

MapRunOf(items, max_comments) ==
    [pc |-> "for", items |-> items, max_comments |-> max_comments, i |-> 1,
     comments |-> <<>>, error |-> ""]

\* line 193 with no item left
MapEnd ==
    /\ map_run.pc = "for"
    /\ map_run.i > Len(map_run.items)
    /\ map_run' = [map_run EXCEPT !.pc = "done"]
    /\ UNCHANGED besidesMap

\* lines 193-203 for one item: appended, break when max_comments is reached
MapNextItem ==
    /\ map_run.pc = "for"
    /\ map_run.i <= Len(map_run.items)
    /\ LET m == MapItem(map_run.items[map_run.i])
           comments == Append(map_run.comments, m.comment)
       IN  /\ m.ok
           /\ map_run' = [map_run EXCEPT
                            !.comments = comments,
                            !.i = @ + 1,
                            !.pc = IF Len(comments) >= map_run.max_comments
                                   THEN "done" ELSE "for"]
    /\ UNCHANGED besidesMap

\* line 194 raising out of the loop and of the function
MapItemRaises ==
    /\ map_run.pc = "for"
    /\ map_run.i <= Len(map_run.items)
    /\ LET m == MapItem(map_run.items[map_run.i])
       IN  /\ ~m.ok
           /\ map_run' = [map_run EXCEPT !.pc = "raised", !.error = m.error]
    /\ UNCHANGED besidesMap

----------------------------------------------------------------------------
(* extract_video_id and convert_youtube_url.  A string is a sequence of    *)
(* one-character strings, and the regular expressions are evaluated on it  *)
(* character by character as re.search evaluates them.                     *)

\* [a-zA-Z0-9_-]
IdChars ==
    { "a", "b", "c", "d", "e", "f", "g", "h", "i", "j", "k", "l", "m",
      "n", "o", "p", "q", "r", "s", "t", "u", "v", "w", "x", "y", "z",
      "A", "B", "C", "D", "E", "F", "G", "H", "I", "J", "K", "L", "M",
      "N", "O", "P", "Q", "R", "S", "T", "U", "V", "W", "X", "Y", "Z",
      "0", "1", "2", "3", "4", "5", "6", "7", "8", "9",
      "_", "-" }

\* {11}
IdLen == 11

NoMatch == [matched |-> FALSE, group |-> <<>>]

\* the literal lit stands in s at position i
LiteralAt(s, i, lit) ==
    /\ i + Len(lit) - 1 <= Len(s)
    /\ \A k \in 1..Len(lit) : s[i + k - 1] = lit[k]

\* ([a-zA-Z0-9_-]{11}) matches in s at position j
GroupAt(s, j) ==
    /\ j + IdLen - 1 <= Len(s)
    /\ \A k \in 0..(IdLen - 1) : s[j + k] \in IdChars

\* (?:m1|m2|...)([a-zA-Z0-9_-]{11}) matches at position i: the first
\* alternative, in the order written, that the group can follow
AlternativesAt(markers, s, i) ==
    {a \in 1..Len(markers) :
        LiteralAt(s, i, markers[a]) /\ GroupAt(s, i + Len(markers[a]))}

MatchesAt(markers, s) ==
    {i \in 1..Len(s) : AlternativesAt(markers, s, i) # {}}

\* re.search(pattern, s): the match at the leftmost position
Search(markers, s) ==
    LET at == MatchesAt(markers, s)
    IN  IF at = {} THEN NoMatch
        ELSE LET i == CHOOSE p \in at : \A q \in at : p <= q
                 alternatives == AlternativesAt(markers, s, i)
                 a == CHOOSE b \in alternatives : \A c \in alternatives : b <= c
                 j == i + Len(markers[a])
             IN  [matched |-> TRUE, group |-> SubSeq(s, j, j + IdLen - 1)]

\* re.search(r'^([a-zA-Z0-9_-]{11})$', s): $ also matches before a final
\* line break
SearchBare(s) ==
    IF /\ GroupAt(s, 1)
       /\ \/ Len(s) = IdLen
          \/ Len(s) = IdLen + 1 /\ s[IdLen + 1] = "\n"
    THEN [matched |-> TRUE, group |-> SubSeq(s, 1, IdLen)]
    ELSE NoMatch

UrlReturned(result) == [outcome |-> "returned", result |-> result]

UrlRaised(error) == [outcome |-> error, result |-> <<>>]

UrlPending == [outcome |-> "pending", result |-> <<>>]

\* the alternatives of the first pattern of extract_video_id without /v/
ExtractMarkersNoSlashV == << <<"v", "=">>, <<"y", "o", "u", "t", "u", ".", "b", "e", "/">>, <<"/", "e", "m", "b", "e", "d", "/">> >>

\* media_processing.py:34: (?:v=|/v/|youtu\.be/|/embed/)
ExtractMarkers == << <<"v", "=">>, <<"/", "v", "/">>, <<"y", "o", "u", "t", "u", ".", "b", "e", "/">>, <<"/", "e", "m", "b", "e", "d", "/">> >>

\* utils.py:30: (?:v=|youtu\.be/|embed/)
ConvertMarkers == << <<"v", "=">>, <<"y", "o", "u", "t", "u", ".", "b", "e", "/">>, <<"e", "m", "b", "e", "d", "/">> >>

EmbedPrefix == <<"h", "t", "t", "p", "s", ":", "/", "/", "w", "w", "w", ".", "y", "o", "u", "t", "u", "b", "e", ".", "c", "o", "m", "/", "e", "m", "b", "e", "d", "/">>

\* media_processing.py:33-43
ExtractVideoId(url) ==
    IF Search(ExtractMarkers, url).matched
    THEN UrlReturned(Search(ExtractMarkers, url).group)
    ELSE IF SearchBare(url).matched
    THEN UrlReturned(SearchBare(url).group)
    ELSE UrlRaised("ValueError")

\* utils.py:27-39
ConvertYoutubeUrl(url) ==
    IF Search(ConvertMarkers, url).matched
    THEN UrlReturned(EmbedPrefix \o Search(ConvertMarkers, url).group)
    ELSE UrlRaised("ValueError")

\* the pieces the URL-like strings of the model are put together from
VideoIdV == <<"d", "Q", "w", "4", "w", "9", "W", "g", "X", "c", "Q">>

UrlParts ==
    { <<"v", "=">>, <<"/", "v", "/">>,
      <<"y", "o", "u", "t", "u", ".", "b", "e", "/">>,
      <<"/", "e", "m", "b", "e", "d", "/">>,
      <<"e", "m", "b", "e", "d", "/">>,
      VideoIdV, SubSeq(VideoIdV, 1, IdLen - 1), <<"x">>, <<" ">>, <<"\n">>,
      <<"w", "a", "t", "c", "h", "?">>,
      <<"n", "o", "t", " ", "a", " ", "u", "r", "l">> }

NoUrlRun == [pc |-> "idle", url |-> <<>>, extracted |-> UrlPending,
             converted |-> UrlPending]

UrlRunOf(url) == [NoUrlRun EXCEPT !.pc = "given", !.url = url]

\* extract_video_id(url)
Extract ==
    /\ url_run.pc = "given"
    /\ url_run.extracted = UrlPending
    /\ url_run' = [url_run EXCEPT !.extracted = ExtractVideoId(url_run.url)]
    /\ UNCHANGED besidesUrl

\* convert_youtube_url(url)
Convert ==
    /\ url_run.pc = "given"
    /\ url_run.converted = UrlPending
    /\ url_run' = [url_run EXCEPT !.converted = ConvertYoutubeUrl(url_run.url)]
    /\ UNCHANGED besidesUrl

----------------------------------------------------------------------------
(* find_captions and retrieve_subtitles against the Transcript Source, and *)
(* get_video_info against the oEmbed endpoint.                             *)
(* A condition is what a request to the source does: it answers ("ok") or  *)
(* raises.  "InvalidUrl" is the ValueError of extract_video_id, raised in  *)
(* the same try block.                                                     *)

NotAvailable == {"TranscriptsDisabled", "NoTranscriptFound", "VideoUnavailable"}

\* "certificate verify failed" in str(e).lower(), and any other exception
TransportFailures == {"certificate", "network"}

Conditions == {"ok", "InvalidUrl"} \cup NotAvailable \cup TransportFailures

Track(code, language, generated, snippets) ==
    [language_code |-> code, language |-> language, is_generated |-> generated,
     snippets |-> snippets]

\* the transcripts a video may have: a manual and a generated one of the
\* same language code, one without snippets, and one of another code whose
\* name is that of the first
Tracks ==
    { Track("en", "English", FALSE, <<"hello", "world">>),
      Track("en", "English", TRUE, <<"hello">>),
      Track("nl", "Dutch", FALSE, <<>>),
      Track("en-GB", "English", FALSE, <<"colour">>) }

\* lang_name, with f"{lang_name} (auto-generated)" for a generated track
LangName(t) ==
    IF t.is_generated THEN <<t.language, " (auto-generated)">>
    ELSE <<t.language>>

LangNames == {LangName(t) : t \in Tracks}

\* " ".join(texts)
RECURSIVE Join(_)
Join(texts) ==
    IF Len(texts) = 0 THEN <<>>
    ELSE IF Len(texts) = 1 THEN <<texts[1]>>
    ELSE <<texts[1], " ">> \o Join(Tail(texts))

\* captions[lang_code] = lang_name for each transcript in turn: a dict in
\* insertion order, a later transcript of the same code replacing the name
RECURSIVE CaptionsOf(_, _)
CaptionsOf(tracks, captions) ==
    IF tracks = <<>> THEN captions
    ELSE LET t == Head(tracks)
             at == {i \in 1..Len(captions) : captions[i].code = t.language_code}
             entry == [code |-> t.language_code, name |-> LangName(t)]
         IN  CaptionsOf(Tail(tracks),
                        IF at = {} THEN Append(captions, entry)
                        ELSE [i \in 1..Len(captions) |->
                                 IF i \in at THEN entry ELSE captions[i]])

CaptionsReturned(captions) ==
    [outcome |-> "returned", captions |-> captions, text |-> <<>>]

SubtitlesReturned(text) ==
    [outcome |-> "returned", captions |-> <<>>, text |-> text]

CaptionsRaised(error) == [outcome |-> error, captions |-> <<>>, text |-> <<>>]

CaptionsPending == CaptionsRaised("pending")

\* media_processing.py:97-126
FindCaptions(tracks, listing) ==
    IF listing = "ok" THEN CaptionsReturned(CaptionsOf(tracks, <<>>))
    ELSE IF listing \in NotAvailable THEN CaptionsReturned(<<>>)
    ELSE CaptionsRaised("RuntimeError")

\* media_processing.py:56-84: every exception of the try block, the
\* ValueError of extract_video_id among them, leaves as RuntimeError
GetVideoInfo(condition) ==
    IF condition = "ok" THEN SubtitlesReturned(<<"title">>)
    ELSE CaptionsRaised("RuntimeError")

\* the first transcript whose name is the selected one (lines 148-156)
TargetTranscripts(tracks, selected) ==
    {i \in 1..Len(tracks) : LangName(tracks[i]) = selected}

\* lines 169-184: what retrieve_subtitles makes of an exception
RaisedByRetrieve(condition) ==
    IF condition = "certificate" THEN CaptionsRaised("RuntimeError")
    ELSE SubtitlesReturned(<<>>)

\* retrieve_subtitles without the break of line 156: the last transcript of
\* the selected name
RetrieveSubtitlesLast(tracks, selected, listing, fetching) ==
    IF listing # "ok" THEN RaisedByRetrieve(listing)
    ELSE IF TargetTranscripts(tracks, selected) = {} THEN SubtitlesReturned(<<>>)
    ELSE IF fetching # "ok" THEN RaisedByRetrieve(fetching)
    ELSE LET i == CHOOSE j \in TargetTranscripts(tracks, selected) :
                      \A k \in TargetTranscripts(tracks, selected) : j >= k
         IN  SubtitlesReturned(Join(tracks[i].snippets))

\* media_processing.py:140-184
RetrieveSubtitles(tracks, selected, listing, fetching) ==
    IF listing # "ok" THEN RaisedByRetrieve(listing)
    ELSE IF TargetTranscripts(tracks, selected) = {} THEN SubtitlesReturned(<<>>)
    ELSE IF fetching # "ok" THEN RaisedByRetrieve(fetching)
    ELSE LET i == CHOOSE j \in TargetTranscripts(tracks, selected) :
                      \A k \in TargetTranscripts(tracks, selected) : j <= k
         IN  SubtitlesReturned(Join(tracks[i].snippets))

NoCaptionsRun ==
    [pc |-> "idle", tracks |-> <<>>, selected |-> <<>>, listing |-> "ok",
     fetching |-> "ok", found |-> CaptionsPending, retrieved |-> CaptionsPending,
     info |-> CaptionsPending]

CaptionsRunOf(tracks, selected, listing, fetching) ==
    [NoCaptionsRun EXCEPT !.pc = "given", !.tracks = tracks,
                          !.selected = selected, !.listing = listing,
                          !.fetching = fetching]

\* find_captions(url)
Find ==
    /\ captions_run.pc = "given"
    /\ captions_run.found = CaptionsPending
    /\ captions_run' =
          [captions_run EXCEPT
              !.found = FindCaptions(captions_run.tracks, captions_run.listing)]
    /\ UNCHANGED besidesCaptions

\* retrieve_subtitles(url, selected_caption_language)
Retrieve ==
    /\ captions_run.pc = "given"
    /\ captions_run.retrieved = CaptionsPending
    /\ captions_run' =
          [captions_run EXCEPT
              !.retrieved = RetrieveSubtitles(captions_run.tracks,
                                              captions_run.selected,
                                              captions_run.listing,
                                              captions_run.fetching)]
    /\ UNCHANGED besidesCaptions

\* get_video_info(url), its request meeting the condition of the listing
Info ==
    /\ captions_run.pc = "given"
    /\ captions_run.info = CaptionsPending
    /\ captions_run' =
          [captions_run EXCEPT !.info = GetVideoInfo(captions_run.listing)]
    /\ UNCHANGED besidesCaptions

----------------------------------------------------------------------------
(* The dashboard of app.py: st.session_state, the widget values, and one   *)
(* action per user interaction, each the callback and the script run that  *)
(* the interaction sets off.                                                *)

\* the video ids of the cache model in the links of the dashboard
VideoIdW == <<"9", "b", "Z", "k", "p", "7", "q", "1", "9", "f", "0">>

VideoName(id) == IF id = VideoIdV THEN "A" ELSE "B"

WatchUrl == <<"h", "t", "t", "p", "s", ":", "/", "/", "w", "w", "w", ".", "y", "o", "u", "t", "u", "b", "e", ".", "c", "o", "m", "/", "w", "a", "t", "c", "h", "?", "v", "=">> \o VideoIdV

ShortUrl == <<"y", "o", "u", "t", "u", ".", "b", "e", "/">> \o VideoIdW

EmbedUrl == <<"y", "o", "u", "t", "u", "b", "e", ".", "c", "o", "m", "/", "e", "m", "b", "e", "d", "/">> \o VideoIdV

SlashVUrl == <<"w", "w", "w", ".", "y", "o", "u", "t", "u", "b", "e", ".", "c", "o", "m", "/", "v", "/">> \o VideoIdV

NoUrl == <<>>

\* what the user may type into the link box
AppUrls == {NoUrl, <<"n", "o", "t", " ", "a", " ", "u", "r", "l">>, WatchUrl, ShortUrl, EmbedUrl, SlashVUrl}

\* \s
Whitespace == {" ", "\t", "\n", "\r"}

\* (?:https?:\/\/)?(?:www\.)? matched from the start of url: where the
\* rest of the pattern may begin
AfterScheme(url) ==
    {1} \cup {1 + Len(scheme) : scheme \in {sch \in {<<"h", "t", "t", "p", "s", ":", "/", "/">>, <<"h", "t", "t", "p", ":", "/", "/">>} :
                                              LiteralAt(url, 1, sch)}}

AfterWww(url) ==
    AfterScheme(url) \cup
    {p + 4 : p \in {q \in AfterScheme(url) : LiteralAt(url, q, <<"w", "w", "w", ".">>)}}

\* [^\/\n\s]+\/\S+\/ spans url[q..j-1]
PathSpan(url, q, j) ==
    \E a \in (q + 1)..(j - 3) :
        /\ url[a] = "/"
        /\ \A i \in q..(a - 1) : url[i] \notin ({"/"} \cup Whitespace)
        /\ url[j - 1] = "/"
        /\ \A i \in (a + 1)..(j - 2) : url[i] \notin Whitespace

\* (?:v|e(?:mbed)?)\/ spans url[q..j-1]
EmbedSpan(url, q, j) ==
    \E word \in {<<"v", "/">>, <<"e", "/">>, <<"e", "m", "b", "e", "d", "/">>} :
        LiteralAt(url, q, word) /\ j = q + Len(word)

\* \S*?[?&]v= spans url[q..j-1]
QuerySpan(url, q, j) ==
    /\ j - 3 >= q
    /\ url[j - 3] \in {"?", "&"}
    /\ LiteralAt(url, j - 2, <<"v", "=">>)
    /\ \A i \in q..(j - 4) : url[i] \notin Whitespace

\* app.py:57-58: re.match(youtube_pattern, url) is not None
MatchYoutubePattern(url) ==
    \E p \in AfterWww(url) :
        \/ LiteralAt(url, p, <<"y", "o", "u", "t", "u", ".", "b", "e", "/">>) /\ GroupAt(url, p + 9)
        \/ /\ LiteralAt(url, p, <<"y", "o", "u", "t", "u", "b", "e", ".", "c", "o", "m", "/">>)
           /\ \E j \in (p + 12)..Len(url) :
                 /\ GroupAt(url, j)
                 /\ \/ PathSpan(url, p + 12, j)
                    \/ EmbedSpan(url, p + 12, j)
                    \/ QuerySpan(url, p + 12, j)

\* app.py:238: (?:v=|youtu\.be/)
SentimentMarkers == << <<"v", "=">>, <<"y", "o", "u", "t", "u", ".", "b", "e", "/">> >>

\* the regular expressions of the dashboard on each link, evaluated once
LinkChecks ==
    [url \in AppUrls |->
        [valid |-> (url # NoUrl /\ MatchYoutubePattern(url)),
         extracted |-> ExtractVideoId(url),
         converted |-> ConvertYoutubeUrl(url),
         sentiment |-> Search(SentimentMarkers, url)]]

NoneUrl == <<"None">>

NoData == <<>>

LangOptions == {"English", "Dutch", "Russian"}

\* lines 24-46, the link box as first rendered, and page: whether the
\* last run of the script got to the end ("tabs") or rendered the link box
\* only
InitSession ==
    [summary |-> "None", video_title |-> "None", previous_url |-> NoneUrl,
     disabled_button |-> FALSE, use_original_language |-> TRUE,
     language_settings_disabled |-> FALSE, comments_data |-> NoData,
     youtube_key |-> 1, condition_yt |-> FALSE,
     url |-> NoUrl, lang_option |-> "English", page |-> "link"]

\* lines 48-50
ClearOutputs(s) == [s EXCEPT !.summary = "None", !.comments_data = NoData]

\* lines 55-60: on_youtube_input
OnYoutubeInput(s, url) ==
    [s EXCEPT !.url = url, !.condition_yt = LinkChecks[url].valid]

\* lines 89-94 with a first test that looks at the summary only
ClearOnNewUrlSummaryOnly(s) ==
    IF /\ s.summary # "None"
       /\ s.condition_yt
       /\ s.previous_url # s.url
    THEN [ClearOutputs(s) EXCEPT !.disabled_button = FALSE,
                                 !.language_settings_disabled = FALSE]
    ELSE s

\* lines 89-94
ClearOnNewUrl(s) ==
    IF /\ s.summary # "None" \/ s.comments_data # NoData
       /\ s.condition_yt
       /\ s.previous_url # s.url
    THEN [ClearOutputs(s) EXCEPT !.disabled_button = FALSE,
                                 !.language_settings_disabled = FALSE]
    ELSE s

\* what the network does to a run: nothing, or get_video_info (line 80)
\* or find_captions (line 109) raises
Networks == {"ok", "get_video_info", "find_captions"}

\* lines 74-109 of one run of the script: convert_youtube_url and
\* get_video_info, the title, the check of lines 89-94, find_captions; an
\* exception ends the run
Run(s, network) ==
    IF ~s.condition_yt THEN [aborted |-> FALSE, session |-> ClearOnNewUrl(s)]
    ELSE IF \/ LinkChecks[s.url].converted.outcome # "returned"
            \/ LinkChecks[s.url].extracted.outcome # "returned"
            \/ network = "get_video_info"
    THEN [aborted |-> TRUE, session |-> s]
    ELSE [aborted |-> network = "find_captions",
          session |->
             ClearOnNewUrl([s EXCEPT
                 !.video_title = VideoName(LinkChecks[s.url].extracted.result)])]

\* the page a run leaves: the widgets under line 96 are there when the run
\* got to the end with a valid link; the language box loses its value in
\* a run that does not render it
Page(run) ==
    IF run.session.condition_yt /\ ~run.aborted
    THEN [run.session EXCEPT !.page = "tabs"]
    ELSE [run.session EXCEPT !.page = "link", !.lang_option = "English"]

NoSummarizerCall ==
    [reached |-> FALSE, chosen_language |-> "none", outcome |-> "none",
     language |-> "none", summary |-> "None"]

NoHandled ==
    [handler |-> "none", use_original_language |-> TRUE, lang_option |-> "None",
     subtitles |-> "none", detected |-> "none", answers |-> FALSE,
     calls |-> <<>>, summarizer |-> NoSummarizerCall]

\* the link box changes: on_youtube_input, then the script run
EnterUrl ==
    /\ \E url \in AppUrls \ {session.url}, network \in Networks :
          session' = Page(Run(OnYoutubeInput(session, url), network))
    /\ handled' = NoHandled
    /\ UNCHANGED <<cacheVars, besidesApp>>

\* a script run that no handler takes part in: another widget, or a run
\* that an exception ends before the handler
Rerun ==
    /\ \E network \in Networks :
          /\ Page(Run(session, network)) # session
          /\ session' = Page(Run(session, network))
    /\ handled' = NoHandled
    /\ UNCHANGED <<cacheVars, besidesApp>>

\* lines 127-131: the toggle
ToggleOriginalLanguage ==
    /\ session.page = "tabs"
    /\ ~session.language_settings_disabled
    /\ session' = [Page(Run(session, "ok")) EXCEPT
                      !.use_original_language = ~session.use_original_language]
    /\ handled' = NoHandled
    /\ UNCHANGED <<cacheVars, besidesApp>>

\* lines 133-137: the language box
SelectLanguage(lang) ==
    /\ session.page = "tabs"
    /\ ~(session.use_original_language \/ session.language_settings_disabled)
    /\ lang # session.lang_option
    /\ session' = [Page(Run(session, "ok")) EXCEPT !.lang_option = lang]
    /\ handled' = NoHandled
    /\ UNCHANGED <<cacheVars, besidesApp>>

\* .strip() of the joined text is empty
Blank(text) == \A i \in 1..Len(text) : text[i] \in ({""} \cup Whitespace)

\* llm_actions.py:54: def summarize_text(input_text, chosen_language)
SummarizeTextParameters == <<"input_text", "chosen_language">>

\* app.py:179: one positional argument and these keywords
SummarizeTextPositional == 1

SummarizeTextKeywords == {"chosen_language", "gemini_key"}

\* Python binds a call when every keyword names a parameter that no
\* positional argument fills and every parameter gets a value
Binds(parameters, positional, keywords) ==
    /\ positional <= Len(parameters)
    /\ keywords \subseteq {parameters[i] : i \in (positional + 1)..Len(parameters)}
    /\ \A i \in (positional + 1)..Len(parameters) : parameters[i] \in keywords

\* llm_actions.py:11-24: detect(text), "English" when it raises
DetectedLanguages == {"en", "nl", "English"}

GeneratedText == "summary"

\* llm_actions.py:54-88
SummarizeText(input_text, chosen_language, detected_language, answers) ==
    LET language == IF chosen_language = "" THEN detected_language
                    ELSE chosen_language
    IN  [reached |-> TRUE, chosen_language |-> chosen_language,
         outcome |-> IF answers THEN "returned" ELSE "RuntimeError",
         language |-> language,
         summary |-> IF answers THEN GeneratedText ELSE "None"]

\* app.py:179: the call; an argument list that does not bind raises
\* TypeError before the body of summarize_text runs
CallSummarizeText(input_text, chosen_language, detected_language, answers) ==
    IF Binds(SummarizeTextParameters, SummarizeTextPositional, SummarizeTextKeywords)
    THEN SummarizeText(input_text, chosen_language, detected_language, answers)
    ELSE [NoSummarizerCall EXCEPT !.reached = TRUE,
                                  !.chosen_language = chosen_language,
                                  !.outcome = "TypeError"]

\* lines 138-139
LangOption(s) == IF s.use_original_language THEN "" ELSE s.lang_option

\* lines 101-103: disable_summary
DisableSummary(s) ==
    [s EXCEPT !.disabled_button = TRUE, !.language_settings_disabled = TRUE]

\* what the click handler makes of the subtitles
SubtitlesOutcome(subtitles) ==
    IF subtitles.outcome # "returned" THEN subtitles.outcome
    ELSE IF Blank(subtitles.text) THEN "blank" ELSE "text"

\* line 109 and line 169 in one run of the script, for every transcript
\* list of the video, every selected language and everything the
\* Transcript Source may do at the three requests: whether find_captions
\* raises, whether the button is shown, and what retrieve_subtitles gives
\* the handler
CaptionRuns ==
    UNION {
        LET found == FindCaptions(tracks, listing)
        IN  IF found.outcome # "returned" \/ found.captions = <<>>
            THEN {[aborted |-> found.outcome # "returned", button |-> FALSE,
                   subtitles |-> "none", text |-> <<>>]}
            ELSE {[aborted |-> FALSE, button |-> TRUE,
                   subtitles |-> SubtitlesOutcome(
                       RetrieveSubtitles(tracks, found.captions[selected].name,
                                         relisting, fetching)),
                   text |-> RetrieveSubtitles(tracks, found.captions[selected].name,
                                              relisting, fetching).text] :
                     selected \in 1..Len(found.captions),
                     relisting \in Conditions, fetching \in Conditions}
        : tracks \in SeqsUpTo(Tracks, MaxTracks), listing \in Conditions }

\* 'Get Subtitle Summary': on_click, the script run down to the button,
\* and lines 157-190; the detected language and whether the model answers
\* are the environment's
ClickSummary ==
    /\ session.page = "tabs"
    /\ ~session.disabled_button
    /\ LET top == Run(DisableSummary(session), "ok").session
           pressed == [top EXCEPT !.disabled_button = TRUE]
           released == [pressed EXCEPT !.disabled_button = FALSE]
           run == [NoHandled EXCEPT
                      !.handler = "summary",
                      !.use_original_language = top.use_original_language,
                      !.lang_option = top.lang_option]
       IN  \E captions \in CaptionRuns :
             LET got == [run EXCEPT !.subtitles = captions.subtitles]
             IN  IF ~captions.button
                 THEN \* the run ends at line 109, or shows no button (146-147)
                      /\ session' = Page([aborted |-> captions.aborted,
                                          session |-> top])
                      /\ handled' = [got EXCEPT !.calls = <<"find_captions">>]
                 ELSE IF captions.subtitles # "text"
                 THEN \* lines 171-174, or the except clause of 188-190
                      /\ session' = released
                      /\ handled' = [got EXCEPT !.calls = <<"find_captions",
                                                            "retrieve_subtitles">>]
                 ELSE \E detected \in DetectedLanguages, answers \in BOOLEAN :
                        LET call == CallSummarizeText(captions.text, LangOption(top),
                                                      detected, answers)
                        IN  /\ session' =
                                 IF call.outcome = "returned"
                                 THEN [pressed EXCEPT !.summary = call.summary,
                                                      !.previous_url = pressed.url]
                                 ELSE released
                            /\ handled' =
                                 [got EXCEPT !.detected = detected,
                                             !.answers = answers,
                                             !.summarizer = call,
                                             !.calls = <<"find_captions",
                                                         "retrieve_subtitles",
                                                         "summarize_text">>]
    /\ UNCHANGED <<cacheVars, besidesApp>>

\* fetch_top_comments_from_youtube(video_id, max_comments) of
\* src/comments_classification.py: the Presentation Layer's call of the
\* Comment Cache
FetchTopComments(video_id, max_comments, failAt) ==
    \/ GetMissingKeyPath(video_id, max_comments) /\ failAt = 0
    \/ GetFromCachePath(video_id, max_comments) /\ failAt = 0
    \/ GetExhaustedPath(video_id, max_comments) /\ failAt = 0
    \/ GetAdditionalPath(video_id, max_comments, failAt)
    \/ GetFreshPath(video_id, max_comments, failAt)

\* 'Analyze Sentiment' on a link with an id: lines 235-272; classified:
\* predict_sentiment returns
ClickSentiment ==
    /\ session.page = "tabs"
    /\ LinkChecks[session.url].sentiment.matched
    /\ \E max_comments \in 1..2, failAt \in 0..1 :
          FetchTopComments(VideoName(LinkChecks[session.url].sentiment.group),
                           max_comments, failAt)
    /\ \E classified \in BOOLEAN :
          session' =
             [Page(Run(session, "ok")) EXCEPT
                 !.comments_data =
                     IF last'.outcome = "returned" /\ last'.result # <<>> /\ classified
                     THEN last'.result ELSE @]
    /\ handled' = NoHandled

\* 'Analyze Sentiment' on a link in which line 238 finds no id: the error
\* of line 241 is shown
ClickSentimentNoId ==
    /\ session.page = "tabs"
    /\ ~LinkChecks[session.url].sentiment.matched
    /\ session' = Page(Run(session, "ok"))
    /\ handled' = [NoHandled EXCEPT !.handler = "no_video_id"]
    /\ UNCHANGED <<cacheVars, besidesApp>>

\* 'Start again': lines 374-381 and the run that st.rerun() starts
StartAgain ==
    /\ session.page = "tabs"
    /\ session.youtube_key <= MaxRestarts
    /\ session' =
          Page(Run(ClearOutputs([Run(session, "ok").session EXCEPT
                                    !.disabled_button = FALSE,
                                    !.youtube_key = @ + 1,
                                    !.condition_yt = FALSE,
                                    !.use_original_language = TRUE,
                                    !.language_settings_disabled = FALSE,
                                    !.url = NoUrl]),
                   "ok"))
    /\ handled' = NoHandled
    /\ UNCHANGED <<cacheVars, besidesApp>>

----------------------------------------------------------------------------

Init ==
    /\ comments_cache \in {MissingCache, NoneCache}
    /\ source \in Sources
    /\ last = NoObs
    /\ prev = NoObs
    /\ environ = "key"
    /\ fetch_run = NoRun
    /\ map_run = NoMapRun
    /\ url_run = NoUrlRun
    /\ captions_run = NoCaptionsRun
    /\ session = InitSession
    /\ handled = NoHandled

Next ==
    \E video_id \in Videos, max_comments \in 1..MaxN :
        \/ GetMissingKey(video_id, max_comments)
        \/ GetFromCache(video_id, max_comments)
        \/ GetExhausted(video_id, max_comments)
        \/ \E failAt \in 0..MaxComments : GetAdditional(video_id, max_comments, failAt)
        \/ \E failAt \in 0..MaxComments : GetFresh(video_id, max_comments, failAt)

Spec == Init /\ [][Next]_vars

(* The session with a credential that may be unset, empty or set at any   *)
(* call; every page request succeeds.                                      *)

InitCred ==
    /\ comments_cache = NoneCache
    /\ source \in Sources
    /\ last = NoObs
    /\ prev = NoObs
    /\ environ \in EnvValues
    /\ fetch_run = NoRun
    /\ map_run = NoMapRun
    /\ url_run = NoUrlRun
    /\ captions_run = NoCaptionsRun
    /\ session = InitSession
    /\ handled = NoHandled

NextCred ==
    \/ \E video_id \in Videos, max_comments \in 1..MaxN :
          \/ GetFromCache(video_id, max_comments)
          \/ GetExhausted(video_id, max_comments)
          \/ GetAdditional(video_id, max_comments, 0)
          \/ GetFresh(video_id, max_comments, 0)
          \/ GetAdditionalNoKey(video_id, max_comments)
          \/ GetFreshNoKey(video_id, max_comments)
    \/ \E value \in EnvValues : SetEnviron(value)

SpecCred == InitCred /\ [][NextCred]_vars

(* One call of _fetch_comments_with_token with any arguments against any  *)
(* source; the statements of one call run to the end.                      *)

InitFetch ==
    /\ comments_cache = NoneCache
    /\ source \in Sources
    /\ last = NoObs
    /\ prev = NoObs
    /\ environ = "key"
    /\ \E video_id \in Videos, max_comments \in 1..MaxN :
         \E page_token \in TokensOf(source, video_id) :
            fetch_run = RunOf(video_id, max_comments, page_token)
    /\ map_run = NoMapRun
    /\ url_run = NoUrlRun
    /\ captions_run = NoCaptionsRun
    /\ session = InitSession
    /\ handled = NoHandled

NextFetch == FetchWhile \/ FetchPage \/ FetchPageFails

SpecFetch == InitFetch /\ [][NextFetch]_vars /\ WF_vars(NextFetch)

(* The item loop on any page of up to MaxItems items of any shape.        *)

InitMap ==
    /\ comments_cache = NoneCache
    /\ source \in {src \in Sources : \A v \in Videos : src[v] = <<<<>>>>}
    /\ last = NoObs
    /\ prev = NoObs
    /\ environ = "key"
    /\ fetch_run = NoRun
    /\ \E items \in SeqsUpTo(ItemShapes, MaxItems) \ {<<>>},
          max_comments \in 1..MaxItems :
            map_run = MapRunOf(items, max_comments)
    /\ url_run = NoUrlRun
    /\ captions_run = NoCaptionsRun
    /\ session = InitSession
    /\ handled = NoHandled

NextMap == MapNextItem \/ MapItemRaises \/ MapEnd

SpecMap == InitMap /\ [][NextMap]_vars

(* Both URL functions on any string of up to MaxParts parts.              *)

InitUrl ==
    /\ comments_cache = NoneCache
    /\ source \in {src \in Sources : \A v \in Videos : src[v] = <<<<>>>>}
    /\ last = NoObs
    /\ prev = NoObs
    /\ environ = "key"
    /\ fetch_run = NoRun
    /\ map_run = NoMapRun
    /\ \E parts \in SeqsUpTo(UrlParts, MaxParts) :
          url_run = UrlRunOf(Flatten(parts))
    /\ captions_run = NoCaptionsRun
    /\ session = InitSession
    /\ handled = NoHandled

NextUrl == Extract \/ Convert

SpecUrl == InitUrl /\ [][NextUrl]_vars

(* The caption functions and get_video_info on any transcripts of one     *)
(* video, the source answering or raising at the listing and at the fetch. *)

InitCaptions ==
    /\ comments_cache = NoneCache
    /\ source \in {src \in Sources : \A v \in Videos : src[v] = <<<<>>>>}
    /\ last = NoObs
    /\ prev = NoObs
    /\ environ = "key"
    /\ fetch_run = NoRun
    /\ map_run = NoMapRun
    /\ url_run = NoUrlRun
    /\ \E tracks \in SeqsUpTo(Tracks, MaxTracks), selected \in LangNames,
          listing \in Conditions, fetching \in Conditions :
            captions_run = CaptionsRunOf(tracks, selected, listing, fetching)
    /\ session = InitSession
    /\ handled = NoHandled

NextCaptions == Find \/ Retrieve \/ Info

SpecCaptions == InitCaptions /\ [][NextCaptions]_vars

(* The dashboard in a session that uses the Summary tab.  'Re-generate     *)
(* Summary' (lines 192-206) is rendered only while session_state.summary   *)
(* is set, which no run of the script brings about, so it has no action.   *)

AppSources ==
    {src \in Sources : Len(src["A"]) = 2 /\ Len(Flatten(src["A"])) = 2
                         /\ Len(Flatten(src["B"])) = 1}

InitSummaryTab ==
    /\ comments_cache = MissingCache
    /\ source \in AppSources
    /\ last = NoObs
    /\ prev = NoObs
    /\ environ = "key"
    /\ fetch_run = NoRun
    /\ map_run = NoMapRun
    /\ url_run = NoUrlRun
    /\ captions_run = NoCaptionsRun
    /\ session = InitSession
    /\ handled = NoHandled

NextSummaryTab ==
    \/ EnterUrl
    \/ ToggleOriginalLanguage
    \/ \E lang \in LangOptions : SelectLanguage(lang)
    \/ ClickSummary
    \/ StartAgain

SpecSummaryTab == InitSummaryTab /\ [][NextSummaryTab]_vars

(* The dashboard in a session that uses the Sentiment Analysis tab, the   *)
(* comments_cache key set to None or left unset before the first request. *)

InitCommentsTab ==
    /\ comments_cache \in {MissingCache, NoneCache}
    /\ source \in AppSources
    /\ last = NoObs
    /\ prev = NoObs
    /\ environ = "key"
    /\ fetch_run = NoRun
    /\ map_run = NoMapRun
    /\ url_run = NoUrlRun
    /\ captions_run = NoCaptionsRun
    /\ session = InitSession
    /\ handled = NoHandled

NextCommentsTab ==
    \/ EnterUrl
    \/ Rerun
    \/ ClickSentiment
    \/ ClickSentimentNoId
    \/ StartAgain

SpecCommentsTab == InitCommentsTab /\ [][NextCommentsTab]_vars

(* The dashboard in a session that uses both tabs.                         *)

NextDashboard ==
    \/ EnterUrl
    \/ Rerun
    \/ ToggleOriginalLanguage
    \/ \E lang \in LangOptions : SelectLanguage(lang)
    \/ ClickSummary
    \/ ClickSentiment
    \/ ClickSentimentNoId
    \/ StartAgain

SpecDashboard == InitCommentsTab /\ [][NextDashboard]_vars

----------------------------------------------------------------------------
(* Vocabulary of the properties *)

Called(obs) == obs.outcome # "none"

Returned(obs) == obs.outcome = "returned"

\* the cache the call found held an entry for the requested video
HadEntry(obs) ==
    obs.before.kind = "entry" /\ obs.before.video_id = obs.video_id

\* the cache the call found was initialised and held no entry for the video
HadNoEntry(obs) ==
    \/ obs.before.kind = "none"
    \/ obs.before.kind = "entry" /\ obs.before.video_id # obs.video_id

SameRequest(o1, o2) ==
    o1.video_id = o2.video_id /\ o1.max_comments = o2.max_comments

OnlyCommentsOf(video_id, comments) ==
    \A i \in 1..Len(comments) : comments[i][1] = video_id

----------------------------------------------------------------------------
\* C1: when the entry of the requested video already holds at least n
\* comments, two get_cached_comments(video_id, n) calls in succession make
\* no Comment Source call, both return the first n cached comments, and the
\* cache entry is the same before, between and after them.
C1_TwiceFromCache ==
    ( /\ Called(prev) /\ Called(last)
      /\ SameRequest(prev, last)
      /\ HadEntry(prev)
      /\ Len(prev.before.comments) >= prev.max_comments )
    => /\ Returned(prev) /\ Returned(last)
       /\ prev.calls = <<>> /\ last.calls = <<>>
       /\ prev.result = SubSeq(prev.before.comments, 1, prev.max_comments)
       /\ last.result = prev.result
       /\ last.before = prev.before
       /\ comments_cache = prev.before

C1_Witness ==
    /\ Called(prev) /\ Called(last)
    /\ SameRequest(prev, last)
    /\ HadEntry(prev)
    /\ Len(prev.before.comments) > prev.max_comments
    /\ Len(last.result) = last.max_comments

\* C2: a call for n2 comments right after a returned call for n1 < n2
\* comments of the same video returns a list that has the earlier result
\* as a prefix.
C2_LargerRequestExtends ==
    ( /\ Returned(prev) /\ Returned(last)
      /\ prev.video_id = last.video_id
      /\ prev.max_comments < last.max_comments )
    => IsPrefix(prev.result, last.result)

C2_Witness ==
    /\ Returned(prev) /\ Returned(last)
    /\ prev.video_id = last.video_id
    /\ prev.max_comments < last.max_comments
    /\ HadEntry(prev)
    /\ prev.result # <<>>
    /\ last.calls # <<>>
    /\ Len(last.result) > Len(prev.result)

\* C3: once a call for video B has returned on a cache that held an entry
\* of another video A, the cache holds B's comments only, and a following
\* call for A finds no entry of A: it asks the Comment Source for
\* max_comments comments starting with no cursor and returns what that
\* fetch delivers.
C3_SwitchDiscards ==
    ( /\ Returned(prev)
      /\ prev.before.kind = "entry"
      /\ prev.before.video_id # prev.video_id
      /\ Called(last)
      /\ last.video_id = prev.before.video_id )
    => /\ last.before.video_id = prev.video_id
       /\ OnlyCommentsOf(prev.video_id, last.before.comments)
       /\ last.before.comments = prev.result
       /\ last.fetch = [amount |-> last.max_comments, page_token |-> NoToken]
       /\ last.calls # <<>>
       /\ last.calls[1] = [videoId |-> last.video_id, maxResults |-> MaxResults,
                           pageToken |-> NoToken]
       /\ Returned(last) =>
             /\ last.result = Take(AllComments(last.video_id), last.max_comments)
             /\ comments_cache.video_id = last.video_id
             /\ comments_cache.comments = last.result

C3_Witness ==
    /\ Returned(prev)
    /\ prev.before.kind = "entry"
    /\ prev.before.video_id # prev.video_id
    /\ prev.before.comments # <<>>
    /\ prev.result # <<>>
    /\ Returned(last)
    /\ last.video_id = prev.before.video_id
    /\ last.result # prev.before.comments


\* C4: whenever the Comment Source holds fewer than max_comments comments
\* for the video, a call (on an initialised cache, with no page request
\* failing) returns exactly the source's complete comment sequence,
\* whatever calls preceded it.
C4_ExhaustedSetReturned ==
    ( /\ Called(last)
      /\ last.before.kind # "missing"
      /\ last.outcome # "SourceError"
      /\ Len(AllComments(last.video_id)) < last.max_comments )
    => /\ Returned(last)
       /\ last.result = AllComments(last.video_id)

\* C5: a call for more comments than the source holds, on a cache with no
\* entry for the video, returns all k comments of the source; a call for
\* m <= k comments right after it returns the first m of them without any
\* page request.
C5_ShortSourceThenCache ==
    ( /\ Called(prev) /\ Called(last)
      /\ HadNoEntry(prev)
      /\ prev.outcome # "SourceError"
      /\ prev.max_comments > Len(AllComments(prev.video_id))
      /\ last.video_id = prev.video_id
      /\ last.max_comments <= Len(AllComments(prev.video_id)) )
    => /\ Returned(prev)
       /\ prev.result = AllComments(prev.video_id)
       /\ Returned(last)
       /\ last.result = Take(AllComments(prev.video_id), last.max_comments)
       /\ last.calls = <<>>

C5_Witness ==
    /\ Called(prev) /\ Called(last)
    /\ HadNoEntry(prev)
    /\ Len(prev.calls) >= 2
    /\ prev.max_comments > Len(AllComments(prev.video_id))
    /\ last.video_id = prev.video_id
    /\ last.max_comments < Len(AllComments(prev.video_id))
    /\ Len(last.result) = last.max_comments

\* C6: a call that finds no entry for the requested video (the key never
\* set, None, or an entry of another video) fetches max_comments comments
\* from the Comment Source starting with no cursor, stores the fetched
\* comments and cursor as the entry of the requested video and returns at
\* most max_comments comments, fewer only if the source is exhausted.
C6_FreshFetchWhenNoEntry ==
    ( Called(last) /\ ~HadEntry(last) )
    => /\ last.fetch = [amount |-> last.max_comments, page_token |-> NoToken]
       /\ last.calls # <<>>
       /\ last.calls[1].pageToken = NoToken
       /\ last.outcome # "SourceError" =>
             /\ Returned(last)
             /\ comments_cache.kind = "entry"
             /\ comments_cache.video_id = last.video_id
             /\ comments_cache.comments = last.result
             /\ Len(last.result) <= last.max_comments
             /\ Len(last.result) < last.max_comments
                   => last.result = AllComments(last.video_id)

\* C7: a call that finds an entry of the requested video with fewer than
\* max_comments comments (zero included) and no cursor returns the cached
\* comments, makes no page request and leaves the entry as it is.
C7_ExhaustedNoRefetch ==
    ( /\ Called(last)
      /\ HadEntry(last)
      /\ Len(last.before.comments) < last.max_comments
      /\ last.before.next_page_token = NoToken )
    => /\ Returned(last)
       /\ last.result = last.before.comments
       /\ last.calls = <<>>
       /\ comments_cache = last.before

\* C8: a call that finds an entry of the requested video with
\* cached_count < max_comments comments and a cursor asks the fetch for
\* max_comments - cached_count comments from the stored cursor; when no
\* page request fails the new entry is the old comments followed by the
\* comments the source holds from that cursor on (at most the number asked
\* for), the cursor is the one the last page answered with, and the call
\* returns the first max_comments of the entry.
C8_AdditionalFetch ==
    ( /\ Called(last)
      /\ HadEntry(last)
      /\ Len(last.before.comments) < last.max_comments
      /\ last.before.next_page_token # NoToken )
    => LET cached_count == Len(last.before.comments)
           needed == last.max_comments - cached_count
       IN  /\ last.fetch = [amount |-> needed,
                            page_token |-> last.before.next_page_token]
           /\ last.calls # <<>>
           /\ last.calls[1].pageToken = last.before.next_page_token
           /\ last.outcome # "SourceError" =>
                 /\ Returned(last)
                 /\ comments_cache.kind = "entry"
                 /\ comments_cache.video_id = last.video_id
                 /\ comments_cache.comments =
                       last.before.comments \o
                       Take(RemainingFrom(last.video_id,
                                          last.before.next_page_token), needed)
                 /\ comments_cache.next_page_token =
                       ListPage(last.video_id,
                                last.calls[Len(last.calls)].pageToken).nextPageToken
                 /\ last.result = Take(comments_cache.comments, last.max_comments)
                 /\ Len(last.result) <= last.max_comments

C8_Witness ==
    /\ Returned(last)
    /\ HadEntry(last)
    /\ last.before.comments # <<>>
    /\ last.before.next_page_token # NoToken
    /\ Len(last.before.comments) < last.max_comments
    /\ Len(last.calls) >= 2
    /\ Len(comments_cache.comments) = last.max_comments

\* C9: in every step the cache holds comments of its own video only, and
\* while the cached video_id stays the same the number of cached comments
\* does not decrease.
C9_MonotoneOneVideo ==
    [][ /\ OnlyCommentsOf(comments_cache.video_id, comments_cache.comments)
        /\ OnlyCommentsOf(comments_cache'.video_id, comments_cache'.comments)
        /\ ( /\ comments_cache.kind = "entry"
             /\ comments_cache'.kind = "entry"
             /\ comments_cache'.video_id = comments_cache.video_id )
           => Len(comments_cache'.comments) >= Len(comments_cache.comments) ]_vars

C9_Witness ==
    /\ Returned(last)
    /\ HadEntry(last)
    /\ last.before.comments # <<>>
    /\ comments_cache.video_id = last.before.video_id
    /\ Len(comments_cache.comments) > Len(last.before.comments)
    /\ prev.outcome = "SourceError"

\* C10: a call in which a page request fails ends with the failure, returns
\* nothing, and leaves the stored entry exactly as the call found it.
C10_FailureLeavesCache ==
    last.outcome = "SourceError"
    => /\ last.calls # <<>>
       /\ last.result = <<>>
       /\ comments_cache = last.before

C10_Witness ==
    /\ last.outcome = "SourceError"
    /\ Len(last.calls) >= 2
    /\ HadEntry(last)
    /\ last.before.comments # <<>>
    /\ last.before.next_page_token # NoToken

\* C11: with YOUTUBE_API_KEY unset or empty, a call that needs a fetch ends
\* with the configuration error, has sent no page request and leaves the
\* cache as it found it; a call the cache can serve returns the first
\* max_comments cached comments all the same.  No step before the first
\* fetch looks at the credential: a session starts without it.
C11_NeedsFetch(obs) ==
    ~( /\ HadEntry(obs)
       /\ \/ Len(obs.before.comments) >= obs.max_comments
          \/ obs.before.next_page_token = NoToken /\ obs.before.comments # <<>> )

C11_ConfigErrorBeforeFetch ==
    ( Called(last) /\ last.api_key = "" )
    => /\ C11_NeedsFetch(last) =>
             /\ last.outcome = "ConfigError"
             /\ last.calls = <<>>
             /\ last.result = <<>>
             /\ comments_cache = last.before
       /\ ( HadEntry(last) /\ Len(last.before.comments) >= last.max_comments ) =>
             /\ Returned(last)
             /\ last.result = SubSeq(last.before.comments, 1, last.max_comments)

C11_Witness ==
    /\ last.outcome = "ConfigError"
    /\ HadEntry(last)
    /\ last.before.comments # <<>>
    /\ Returned(prev)
    /\ prev.api_key = ""
    /\ HadEntry(prev)
    /\ environ = "unset"

\* C18: a run of the fetch loop ends (returns or raises); every page
\* request asks for MaxResults items and is sent only while fewer than
\* max_comments comments are accumulated and no response came without a
\* continuation cursor; a run that returns returns at most max_comments
\* comments.
C18_RequestAllowed ==
    Len(fetch_run'.calls) > Len(fetch_run.calls)
    => /\ Len(fetch_run'.calls) = Len(fetch_run.calls) + 1
       /\ fetch_run'.calls[Len(fetch_run'.calls)].maxResults = MaxResults
       /\ Len(fetch_run.comments) < fetch_run.max_comments
       /\ \A i \in 1..Len(fetch_run.responses) : fetch_run.responses[i] # NoToken

C18_FetchLoopBounded ==
    /\ [][C18_RequestAllowed]_vars
    /\ [](fetch_run.pc = "returned"
            => Len(fetch_run.comments) <= fetch_run.max_comments)
    /\ <>(fetch_run.pc \in {"returned", "raised"})

C18_Witness ==
    /\ fetch_run.pc = "returned"
    /\ Len(fetch_run.calls) >= 2
    /\ Len(fetch_run.comments) = fetch_run.max_comments
    /\ fetch_run.next_page_token # NoToken

\* C19: a fetch accumulates every item of every page it requested, and the
\* cut to max_comments is made by get_cached_comments on the returned
\* list: after a call that fetched, the entry holds what was cached before
\* followed by all items of the requested pages.
C19_PagesOf(obs) ==
    Flatten([i \in 1..Len(obs.calls) |->
                ListPage(obs.video_id, obs.calls[i].pageToken).items])

C19_WholePagesAccumulated ==
    ( Returned(last) /\ last.calls # <<>> )
    => /\ comments_cache.comments =
             (IF HadEntry(last) THEN last.before.comments ELSE <<>>)
             \o C19_PagesOf(last)
       /\ last.result = Take(comments_cache.comments, last.max_comments)

\* C20: the item loop never raises, whatever the shape of the items: an
\* item whose nested fields are missing or not a mapping is mapped to a
\* Comment record with the default fields, and the items after it are
\* mapped too (up to max_comments items).
C20_Expected(item) ==
    LET a == GetOr(item, "snippet", NotMapping)
        b == GetOr(a, "topLevelComment", NotMapping)
        s == GetOr(b, "snippet", NotMapping)
    IN  [id |-> GetOr(item, "id", "None"),
         text |-> GetOr(s, "textDisplay", ""),
         author |-> GetOr(s, "authorDisplayName", "None"),
         published_at |-> GetOr(s, "publishedAt", "None"),
         like_count |-> GetOr(s, "likeCount", 0)]

C20_MappingNeverFails ==
    /\ map_run.pc # "raised"
    /\ map_run.pc = "done" =>
          LET n == IF Len(map_run.items) < map_run.max_comments
                   THEN Len(map_run.items) ELSE map_run.max_comments
          IN  map_run.comments = [i \in 1..n |-> C20_Expected(map_run.items[i])]

\* C13 (as stated): extract_video_id returns the 11-character id V for the
\* inputs carrying V in one of the four listed shapes (v=V of watch?v=V,
\* youtu.be/V, /embed/V, the bare token V) and fails with ValueError for
\* every input in none of them.
C13_ListedMarkers ==
    { <<"v", "=">>, <<"y", "o", "u", "t", "u", ".", "b", "e", "/">>,
      <<"/", "e", "m", "b", "e", "d", "/">> }

\* where in url an 11-character id stands right after one of the markers
C13_IdPositions(markers, url) ==
    {j \in 1..Len(url) :
        /\ GroupAt(url, j)
        /\ \E marker \in markers :
              j > Len(marker) /\ LiteralAt(url, j - Len(marker), marker)}

C13_IsBareToken(url) == Len(url) = IdLen /\ GroupAt(url, 1)

C13_FourShapesOnly ==
    url_run.extracted # UrlPending =>
        LET url == url_run.url
            at == C13_IdPositions(C13_ListedMarkers, url)
        IN  IF at # {} \/ C13_IsBareToken(url)
            THEN /\ url_run.extracted.outcome = "returned"
                 /\ \/ \E j \in at :
                         url_run.extracted.result = SubSeq(url, j, j + IdLen - 1)
                    \/ C13_IsBareToken(url) /\ url_run.extracted.result = url
            ELSE url_run.extracted.outcome = "ValueError"

\* C13 (amended): extract_video_id returns the 11 id characters that follow
\* the leftmost of the markers v=, /v/, youtu.be/ and /embed/ that 11 id
\* characters follow; without such a marker it returns the input when the
\* input is exactly 11 id characters, a final line break aside; it fails
\* with ValueError for every other input.
C13_Markers == C13_ListedMarkers \cup { <<"/", "v", "/">> }

C13_IsBareLine(url) ==
    \/ C13_IsBareToken(url)
    \/ /\ Len(url) = IdLen + 1
       /\ GroupAt(url, 1)
       /\ url[IdLen + 1] = "\n"

C13_ExtractByShape ==
    url_run.extracted # UrlPending =>
        LET url == url_run.url
            at == C13_IdPositions(C13_Markers, url)
        IN  IF at # {}
            THEN /\ url_run.extracted.outcome = "returned"
                 /\ \E j \in at :
                       /\ \A k \in at : j <= k
                       /\ url_run.extracted.result = SubSeq(url, j, j + IdLen - 1)
            ELSE IF C13_IsBareLine(url)
            THEN url_run.extracted = UrlReturned(SubSeq(url, 1, IdLen))
            ELSE url_run.extracted = UrlRaised("ValueError")

C13_Witness ==
    /\ LiteralAt(url_run.url, 1, <<"/", "v", "/">>)
    /\ Len(url_run.url) = 3 + IdLen
    /\ url_run.extracted = UrlReturned(VideoIdV)

\* C14: for every input from which extract_video_id yields an id V,
\* convert_youtube_url returns https://www.youtube.com/embed/V and does not
\* raise.
C14_ConvertAgreesWithExtract ==
    (url_run.extracted.outcome = "returned" /\ url_run.converted # UrlPending) =>
        url_run.converted = UrlReturned(EmbedPrefix \o url_run.extracted.result)

\* C15: in find_captions and in retrieve_subtitles alike, a NotAvailable
\* condition of the Transcript Source yields the empty result without
\* raising, and a transport failure (certificate or any other network/API
\* error), at the listing or at the fetch of the transcript, is raised to
\* the caller and never returned as the empty result.
C15_Reached(tracks, selected, listing, fetching) ==
    IF listing = "ok" /\ TargetTranscripts(tracks, selected) # {}
    THEN fetching ELSE listing

C15_TransportNeverSwallowed ==
    LET run == captions_run
        reached == C15_Reached(run.tracks, run.selected, run.listing, run.fetching)
    IN  /\ run.found # CaptionsPending =>
              /\ run.listing \in NotAvailable => run.found = CaptionsReturned(<<>>)
              /\ run.listing \in TransportFailures => run.found.outcome = "RuntimeError"
        /\ run.retrieved # CaptionsPending =>
              /\ reached \in NotAvailable => run.retrieved = SubtitlesReturned(<<>>)
              /\ reached \in TransportFailures => run.retrieved.outcome = "RuntimeError"

\* C12: 'Start again' and the loading of a new video discard the comment
\* cache entry: right after either event no entry is cached.
C12_Reset == session'.youtube_key # session.youtube_key

C12_NewVideo == session'.url # session.url /\ session'.condition_yt

C12_CacheDiscardedOnReset ==
    [][(comments_cache.kind = "entry" /\ (C12_Reset \/ C12_NewVideo))
          => comments_cache'.kind # "entry"]_vars

\* C16: a click on 'Get Subtitle Summary' that gets non-empty subtitles
\* from the Transcript Source and an answer from the Summarizer ends with
\* session_state.summary set to the generated text and previous_url set to
\* the link, the Transcript Source called before the Summarizer.
C16_SummaryCompletes ==
    (/\ handled.handler = "summary"
     /\ handled.subtitles = "text"
     /\ handled.answers)
        => /\ session.summary = GeneratedText
           /\ session.previous_url = session.url
           /\ handled.calls = <<"find_captions", "retrieve_subtitles",
                                "summarize_text">>

\* C17: when 'Use original language' is on, the Summarizer is called with
\* an empty target language whatever the language box holds, and
\* summarize_text writes in the language detected from the transcript; a
\* non-empty target language is passed through and used unchanged.
C17_EmptyMeansSourceLanguage ==
    (handled.handler = "summary" /\ handled.summarizer.reached) =>
        IF handled.use_original_language
        THEN /\ handled.summarizer.chosen_language = ""
             /\ handled.summarizer.language = handled.detected
        ELSE /\ handled.summarizer.chosen_language = handled.lang_option
             /\ handled.summarizer.language = handled.lang_option

(* C21: when the URL matches no known shape, get_video_info, find_captions *)
(* and retrieve_subtitles each hand the caller the condition that          *)
(* extract_video_id raised (ValueError), not a generic runtime error and   *)
(* not an empty result.                                                    *)
C21_InvalidReferenceReported ==
    (captions_run.pc = "given" /\ captions_run.listing = "InvalidUrl") =>
        \A r \in {captions_run.info, captions_run.found, captions_run.retrieved} :
            r # CaptionsPending => r.outcome = "ValueError"

(* C22: find_captions lists every track the Transcript Source reports: the *)
(* display name of each track is among the names it returns, also when a   *)
(* manual and a generated track have the same language code.               *)
C22_EveryTrackListed ==
    (/\ captions_run.pc = "given"
     /\ captions_run.listing = "ok"
     /\ captions_run.found # CaptionsPending) =>
        /\ captions_run.found.outcome = "returned"
        /\ \A i \in 1..Len(captions_run.tracks) :
              \E k \in 1..Len(captions_run.found.captions) :
                 captions_run.found.captions[k].name = LangName(captions_run.tracks[i])

\* the display name of a track: its language name, followed by
\* " (auto-generated)" when the track is generated
C23_DisplayName(t) ==
    <<t.language>> \o (IF t.is_generated THEN <<" (auto-generated)">> ELSE <<>>)

\* the tracks of the run that have the selected display name
C23_Matching ==
    {i \in 1..Len(captions_run.tracks) :
        C23_DisplayName(captions_run.tracks[i]) = captions_run.selected}

\* text is the snippets in their order with one space between neighbours
C23_SpaceJoined(text, snippets) ==
    IF snippets = <<>> THEN text = <<>>
    ELSE /\ Len(text) = 2 * Len(snippets) - 1
         /\ \A k \in 1..Len(snippets) : text[2 * k - 1] = snippets[k]
         /\ \A k \in 1..(Len(snippets) - 1) : text[2 * k] = " "

(* C23: with the transcripts listed, retrieve_subtitles returns the        *)
(* snippets of the first track of the selected display name joined by      *)
(* single spaces when the fetch answers, and returns the empty string when *)
(* no track has that name, whatever a fetch would have done.               *)
C23_FirstMatchSpaceJoined ==
    (/\ captions_run.pc = "given"
     /\ captions_run.listing = "ok"
     /\ captions_run.retrieved # CaptionsPending) =>
        IF C23_Matching = {}
        THEN captions_run.retrieved = SubtitlesReturned(<<>>)
        ELSE captions_run.fetching = "ok" =>
                /\ captions_run.retrieved.outcome = "returned"
                /\ \E i \in C23_Matching :
                      /\ \A j \in C23_Matching : i <= j
                      /\ C23_SpaceJoined(captions_run.retrieved.text,
                                         captions_run.tracks[i].snippets)

\* two tracks of the selected name, the text of the first one returned;
\* and no track of the selected name while a fetch would raise
C23_Witness ==
    /\ captions_run.pc = "given"
    /\ captions_run.listing = "ok"
    /\ captions_run.fetching = "ok"
    /\ Cardinality(C23_Matching) = 2
    /\ captions_run.tracks[1].snippets # captions_run.tracks[2].snippets
    /\ Len(captions_run.tracks[1].snippets) = 2
    /\ captions_run.retrieved = SubtitlesReturned(<<"hello", " ", "world">>)

(* C24: disabled_button follows the request lifecycle: the handling of a   *)
(* 'Get Subtitle Summary' click ends with the flag True when the attempt   *)
(* completed and False when it failed, and with a summary shown the flag   *)
(* stays True while the link is unchanged and 'Start again' is not         *)
(* pressed.                                                                *)
C24_ButtonFollowsLifecycle ==
    [][/\ handled'.handler = "summary" =>
            (session'.disabled_button <=> handled'.summarizer.outcome = "returned")
       /\ (/\ session.disabled_button
           /\ session.summary # "None"
           /\ session'.url = session.url
           /\ session'.youtube_key = session.youtube_key) =>
              session'.disabled_button]_vars

(* C25: the comments of a cache entry are the first comments of the        *)
(* source's sequence for that video, in source order, none skipped and     *)
(* none twice; an entry whose cursor is absent holds every comment of the  *)
(* source.                                                                 *)
C25_CacheIsSourcePrefix ==
    comments_cache.kind = "entry" =>
        /\ IsPrefix(comments_cache.comments, AllComments(comments_cache.video_id))
        /\ comments_cache.next_page_token = NoToken =>
              comments_cache.comments = AllComments(comments_cache.video_id)

(* C26: sentiment results on the page are the comments of the video that   *)
(* the link in the box names, whatever was clicked and entered before.     *)
C26_ResultsOfCurrentVideo ==
    (session.page = "tabs" /\ session.comments_data # NoData) =>
        /\ LinkChecks[session.url].sentiment.matched
        /\ OnlyCommentsOf(VideoName(LinkChecks[session.url].sentiment.group),
                          session.comments_data)

\* results of the second video on the page after an analysis of the first
C26_Witness ==
    /\ session.page = "tabs"
    /\ session.comments_data # NoData
    /\ session.url = ShortUrl
    /\ Returned(prev)
    /\ prev.video_id = "A"
    /\ prev.result # <<>>

(* C27: once comments_data is set it stays set in every later run of the   *)
(* page while the link in the box is the same and 'Start again' is not     *)
(* pressed, summary or no summary.                                         *)
C27_ResultsPersist ==
    [][(/\ session.comments_data # NoData
        /\ session'.url = session.url
        /\ session'.youtube_key = session.youtube_key) =>
           session'.comments_data # NoData]_vars

(* C29: at the end of every run of the page, when the summary button is    *)
(* enabled the language settings are enabled too.                          *)
C29_LocksAgree ==
    ~session.disabled_button => ~session.language_settings_disabled

(* C30: for every link that the link box accepts, convert_youtube_url,     *)
(* extract_video_id and the pattern of the sentiment tab all find an id,   *)
(* and the same one.                                                       *)
C30_ValidatorsAgree ==
    session.condition_yt =>
        LET checks == LinkChecks[session.url]
        IN  /\ checks.extracted.outcome = "returned"
            /\ checks.converted.outcome = "returned"
            /\ checks.sentiment.matched
            /\ checks.converted.result = EmbedPrefix \o checks.extracted.result
            /\ checks.sentiment.group = checks.extracted.result

====
